---- MODULE Spec2Model ----
(***************************************************************************)
(* StarPlanner (local_planner/src/nodes/star_planner.cpp): the look-ahead  *)
(* tree search of the local planner.                                       *)
(*                                                                         *)
(* Numbers.  The code computes in float; the model computes in fixed point *)
(* with 1000 units to 1.0 (so the candidate 0.707f is 707, the dedup       *)
(* radius 0.2f is 200).  Speeds are whole numbers; a velocity is a         *)
(* direction (fixed point) times a speed.  Norm is the floor of the        *)
(* Euclidean norm, so that norm < r and norm >= r decide exactly as the    *)
(* real norm does for every whole threshold r.                             *)
(*                                                                         *)
(* Indices are the code's 0-based indices; tree_[i] of the code is         *)
(* tree_[i + 1] of the model.                                              *)
(***************************************************************************)
EXTENDS Integers, Sequences, FiniteSets, TLC

VARIABLES
  \* inputs, written by the setters only
  cost_params_, lims_, acceptance_radius_,       \* setParams
  position_, velocity_, q_,                      \* setPose
  goal_,                                         \* setGoal
  cloud_,                                        \* setPointcloud
  children_per_node_, n_expanded_nodes_, tree_node_duration_, max_path_length_,
  smoothing_margin_degrees_, tree_heuristic_weight_, max_sensor_range_,
  min_sensor_range_,                             \* dynamicReconfigureSetStarParams
  \* results, written by buildLookAheadTree
  tree_, closed_set_, path_node_setpoints_, starting_direction_,
  \* locals of the running buildLookAheadTree and its position
  origin, has_reached_goal, pc,
  \* observation only: which branch left the loop, whether extraction read
  \* outside path_node_setpoints_, and a planner constructed at the moment of
  \* the call that runs the same call on the same inputs
  exit_branch, oob_read, fresh,
  \* observation only: the inputs as they were at the entry of the latest call,
  \* and the tree of the call before it when that call had the same inputs but
  \* for a smaller heuristic weight
  call_inputs, prev

inputs == <<cost_params_, lims_, acceptance_radius_, position_, velocity_, q_, goal_,
            cloud_, children_per_node_, n_expanded_nodes_, tree_node_duration_,
            max_path_length_, smoothing_margin_degrees_, tree_heuristic_weight_,
            max_sensor_range_, min_sensor_range_>>
results == <<tree_, closed_set_, path_node_setpoints_, starting_direction_>>
vars == <<inputs, results, origin, has_reached_goal, pc, exit_branch, oob_read, fresh,
          call_inputs, prev>>

----------------------------------------------------------------------------
\* Eigen::Vector3f arithmetic

Zero3 == <<0, 0, 0>>
Add(a, b) == <<a[1] + b[1], a[2] + b[2], a[3] + b[3]>>
Sub(a, b) == <<a[1] - b[1], a[2] - b[2], a[3] - b[3]>>
Dot(a, b) == a[1] * b[1] + a[2] * b[2] + a[3] * b[3]

RECURSIVE ISqrtIter(_, _, _)
ISqrtIter(n, lo, hi) ==
  IF hi - lo <= 1 THEN lo
  ELSE LET mid == (lo + hi) \div 2
       IN IF mid * mid <= n THEN ISqrtIter(n, mid, hi) ELSE ISqrtIter(n, lo, mid)

ISqrt(n) == ISqrtIter(n, 0, 46341)

Norm(v) == ISqrt(Dot(v, v))
\* .head<2>().norm()
NormXY(v) == ISqrt(v[1] * v[1] + v[2] * v[2])

Min(a, b) == IF a < b THEN a ELSE b

\* q_ * v for the orientations of the model: no rotation, and a yaw of 90 degrees
Rotate(q, v) == IF q = "yaw90" THEN <<0 - v[2], v[1], v[3]>> ELSE v

----------------------------------------------------------------------------
\* Collaborators that live outside star_planner.cpp

\* simulation_state(time, position): velocity and acceleration default to zero
simulation_state(t, p) ==
  [position |-> p, velocity |-> Zero3, acceleration |-> Zero3, time |-> t]

\* TreeNode(from, state, setpoint): costs start at zero, the node starts open
TreeNode(from, st, sp) ==
  [origin_ |-> from, state |-> st, setpoint |-> sp,
   total_cost_ |-> 0, heuristic_ |-> 0, closed_ |-> FALSE]

\* Speed limiter: the largest whole speed v with v*v + b*v <= 2*accel*distance,
\* b = 4*accel*accel/jerk; zero at distance zero, non-decreasing in the distance.
computeMaxSpeedFromBrakingDistance(jerk, accel, distance) ==
  LET b == (4 * accel * accel) \div jerk
  IN (ISqrt(b * b + (8 * accel * distance) \div 1000) - b) \div 2

\* TrajectorySimulator(limits, state, step).generate_trajectory(direction,
\* duration).back(): the vehicle ends the edge at the commanded velocity (the
\* direction at the limit speed) and has covered the mean of the old and the new
\* velocity for the duration.
generate_trajectory_back(limits, st, direction, duration) ==
  LET v1 == <<direction[1] * limits.max_xy_velocity_norm,
              direction[2] * limits.max_xy_velocity_norm,
              direction[3] * limits.max_z_velocity>>
      s  == Add(st.velocity, v1)
      d  == <<(s[1] * duration) \div 2, (s[2] * duration) \div 2, (s[3] * duration) \div 2>>
  IN [position |-> Add(st.position, d), velocity |-> v1,
      acceleration |-> Zero3, time |-> st.time + duration]

\* Cost evaluator: a base cost per edge plus a penalty near an obstacle point
simpleCost(node, goal, cost_params, cloud) ==
  cost_params.base
  + (IF \E p \in cloud : Norm(Sub(p, node.state.position)) < cost_params.obstacle_radius
     THEN cost_params.obstacle ELSE 0)

----------------------------------------------------------------------------
\* The inputs the setters are called with

NormalLimits ==
  [max_xy_velocity_norm |-> 1, max_z_velocity |-> 1,
   max_acceleration_norm |-> 1, max_jerk_norm |-> 4]
\* a vehicle that may not move at all
ZeroLimits ==
  [max_xy_velocity_norm |-> 0, max_z_velocity |-> 0,
   max_acceleration_norm |-> 1, max_jerk_norm |-> 4]
CostParams == [base |-> 100, obstacle |-> 1000, obstacle_radius |-> 500]

Poses ==
  { [pos |-> Zero3, vel |-> Zero3, q |-> "id"],
    [pos |-> Zero3, vel |-> <<300, 0, 0>>, q |-> "id"],
    [pos |-> <<0, 1000, 0>>, vel |-> <<100, 0, 0>>, q |-> "yaw90"] }
Goals == { Zero3, <<2000, 0, 0>> }
ParamSets ==
  { [cost |-> CostParams, limits |-> NormalLimits, acc_rad |-> 500],
    [cost |-> CostParams, limits |-> NormalLimits, acc_rad |-> 1500],
    [cost |-> CostParams, limits |-> ZeroLimits, acc_rad |-> 500] }
Config(w, range) ==
  [children_per_node_ |-> 8, n_expanded_nodes_ |-> 40, tree_node_duration_ |-> 2,
   smoothing_margin_degrees_ |-> 30, tree_heuristic_weight_ |-> w,
   max_sensor_range_ |-> range, min_sensor_range_ |-> 200]
Configs == { Config(1, 1000), Config(2, 1000), Config(1, 500), Config(1, 0) }
\* one obstacle point beside the straight line to the far goal
Clouds == { {<<1000, 0, 0>>} }
\* readings of ros::Time::now()
Times == { 100 }

----------------------------------------------------------------------------
\* StarPlanner::buildLookAheadTree, as operators on its working state

candidates ==
  << <<1000, 0, 0>>, <<0, 1000, 0>>, <<0, 0, 1000>>,
     <<-1000, 0, 0>>, <<0, -1000, 0>>, <<0, 0, -1000>>,
     <<707, 707, 0>>, <<707, -707, 0>>, <<-707, 707, 0>>, <<-707, -707, 0>> >>

\* 0.2f of the close-node test
DedupRadius == 200
FLT_MAX == 2000000000
\* size_t arithmetic wraps; the modulus stands for 2^64
SizeModulus == 1073741824

\* tree_[i].getPosition(), i the code's 0-based index
Position(t, i) == t[i + 1].state.position

\* h without the heuristic weight
treeHeuristicFunction_Unweighted(t, node_number) ==
  Norm(Sub(goal_, Position(t, node_number)))

\* treeHeuristicFunction(node_number), of tree t
treeHeuristicFunction(t, node_number) ==
  Norm(Sub(goal_, Position(t, node_number))) * tree_heuristic_weight_

\* the root node after setCosts(h, h)
RootNode(now) ==
  LET n == TreeNode(0, [position |-> position_, velocity |-> velocity_,
                        acceleration |-> Zero3, time |-> now], Zero3)
      h == treeHeuristicFunction(<<n>>, 0)
  IN [n EXCEPT !.total_cost_ = h, !.heuristic_ = h]

\* the limits with the braking speed taken over the distance in space, not over
\* the horizontal distance
LocalLimits_DistanceInSpace(t, org) ==
  [lims_ EXCEPT !.max_xy_velocity_norm =
     Min(Min(computeMaxSpeedFromBrakingDistance(
               lims_.max_jerk_norm, lims_.max_acceleration_norm,
               Norm(Sub(Position(t, org), goal_))),
             computeMaxSpeedFromBrakingDistance(
               lims_.max_jerk_norm, lims_.max_acceleration_norm, max_sensor_range_)),
         lims_.max_xy_velocity_norm)]

\* limits of one iteration: lims_ with the locally adjusted horizontal speed
LocalLimits(t, org) ==
  [lims_ EXCEPT !.max_xy_velocity_norm =
     Min(Min(computeMaxSpeedFromBrakingDistance(
               lims_.max_jerk_norm, lims_.max_acceleration_norm,
               NormXY(Sub(Position(t, org), goal_))),
             computeMaxSpeedFromBrakingDistance(
               lims_.max_jerk_norm, lims_.max_acceleration_norm, max_sensor_range_)),
         lims_.max_xy_velocity_norm)]

\* the guard without the index test on the acceptance radius
GoalOrHorizon_NoIndexGuard(t, org) ==
  Norm(Sub(Position(t, org), goal_)) < acceptance_radius_
  \/ Norm(Sub(Position(t, org), position_)) >= 2 * max_sensor_range_

\* the guard with the index test put over both disjuncts
GoalOrHorizon_IndexGuardsBoth(t, org) ==
  org > 1 /\ (Norm(Sub(Position(t, org), goal_)) < acceptance_radius_
              \/ Norm(Sub(Position(t, org), position_)) >= 2 * max_sensor_range_)

\* the guard of the goal/horizon branch: && binds tighter than ||
GoalOrHorizon(t, org) ==
  (org > 1 /\ Norm(Sub(Position(t, org), goal_)) < acceptance_radius_)
  \/ Norm(Sub(Position(t, org), position_)) >= 2 * max_sensor_range_

\* the goal node hung below the root instead of below the origin
AppendGoalNode_BelowRoot(w) ==
  LET t == w.tree_
      org == w.origin
      t1 == Append(t, TreeNode(0, simulation_state(0, goal_),
                               Sub(goal_, Position(t, 0))))
  IN [tree_ |-> t1,
      closed_set_ |-> w.closed_set_ \o <<org, Len(t1) - 1>>,
      origin |-> org, has_reached_goal |-> TRUE, exit_branch |-> "goal"]

\* the goal/horizon branch: the goal as last node, both indices into closed_set_
AppendGoalNode(w) ==
  LET t == w.tree_
      org == w.origin
      t1 == Append(t, TreeNode(org, simulation_state(0, goal_),
                               Sub(goal_, Position(t, org))))
  IN [tree_ |-> t1,
      closed_set_ |-> w.closed_set_ \o <<org, Len(t1) - 1>>,
      origin |-> org, has_reached_goal |-> TRUE, exit_branch |-> "goal"]

\* the close-node scan with the bound one short: the newest node is not compared
RECURSIVE CloseNodes_SkipNewest(_, _, _)
CloseNodes_SkipNewest(t, p, i) ==
  IF i >= Len(t) - 1 THEN 0
  ELSE IF Norm(Sub(Position(t, i), p)) < DedupRadius THEN 1
  ELSE CloseNodes_SkipNewest(t, p, i + 1)

\* the close-node scan: 1 when some node of t is within the dedup radius of p
RECURSIVE CloseNodes(_, _, _)
CloseNodes(t, p, i) ==
  IF i >= Len(t) THEN 0
  ELSE IF Norm(Sub(Position(t, i), p)) < DedupRadius THEN 1
  ELSE CloseNodes(t, p, i + 1)

\* the child's score built on the parent's f instead of the parent's g
ChildNode_OnParentTotal(t, org, end, sp) ==
  LET n == TreeNode(org, end, sp)
      h == treeHeuristicFunction(<<n>>, 0)
  IN [n EXCEPT !.heuristic_ = h,
               !.total_cost_ = t[org + 1].total_cost_
                               + simpleCost(n, goal_, cost_params_, cloud_) + h]

\* the child recorded with its own index as its parent
ChildNode_ParentIsSelf(t, org, end, sp) ==
  LET n == TreeNode(Len(t), end, sp)
      h == treeHeuristicFunction(<<n>>, 0)
  IN [n EXCEPT !.heuristic_ = h,
               !.total_cost_ = t[org + 1].total_cost_ - t[org + 1].heuristic_
                               + simpleCost(n, goal_, cost_params_, cloud_) + h]

\* the node pushed for a candidate that is not close to any node
ChildNode(t, org, end, sp) ==
  LET n == TreeNode(org, end, sp)
      h == treeHeuristicFunction(<<n>>, 0)
  IN [n EXCEPT !.heuristic_ = h,
               !.total_cost_ = t[org + 1].total_cost_ - t[org + 1].heuristic_
                               + simpleCost(n, goal_, cost_params_, cloud_) + h]

\* the loop over the candidates, from candidate k on
RECURSIVE AddCandidates(_, _, _, _)
AddCandidates(t, org, limits, k) ==
  IF k > Len(candidates) THEN t
  ELSE LET sp == Rotate(q_, candidates[k])
           end == generate_trajectory_back(limits, t[org + 1].state, sp, tree_node_duration_)
           t1 == IF CloseNodes(t, end.position, 0) = 0
                 THEN Append(t, ChildNode(t, org, end, sp))
                 ELSE t
       IN AddCandidates(t1, org, limits, k + 1)

\* the scan with <= for <: of equal costs the last one wins
RECURSIVE FindBest_LastOfEqual(_, _, _, _)
FindBest_LastOfEqual(t, i, minimal_cost, org) ==
  IF i >= Len(t) THEN org
  ELSE IF ~t[i + 1].closed_ /\ t[i + 1].total_cost_ <= minimal_cost
       THEN FindBest_LastOfEqual(t, i + 1, t[i + 1].total_cost_, i)
       ELSE FindBest_LastOfEqual(t, i + 1, minimal_cost, org)

\* the scan for the best open node, from index i on; org when none is found
RECURSIVE FindBest(_, _, _, _)
FindBest(t, i, minimal_cost, org) ==
  IF i >= Len(t) THEN org
  ELSE IF ~t[i + 1].closed_ /\ t[i + 1].total_cost_ < minimal_cost
       THEN FindBest(t, i + 1, t[i + 1].total_cost_, i)
       ELSE FindBest(t, i + 1, minimal_cost, org)

\* an expansion without the test of the tree's size after it
ExpandOrigin_NoStuckTest(w) ==
  LET org == w.origin
      t1 == AddCandidates(w.tree_, org, LocalLimits(w.tree_, org), 1)
      t2 == [t1 EXCEPT ![org + 1].closed_ = TRUE]
  IN [tree_ |-> t2,
      closed_set_ |-> Append(w.closed_set_, org),
      origin |-> FindBest(t2, 0, FLT_MAX, org),
      has_reached_goal |-> FALSE,
      exit_branch |-> "none"]

\* an expansion whose stuck test asks whether any node is left to expand
ExpandOrigin_StuckWhenNoneOpen(w) ==
  LET org == w.origin
      t1 == AddCandidates(w.tree_, org, LocalLimits(w.tree_, org), 1)
      t2 == [t1 EXCEPT ![org + 1].closed_ = TRUE]
      none_open == \A i \in 1 .. Len(t2) : t2[i].closed_
  IN [tree_ |-> t2,
      closed_set_ |-> Append(w.closed_set_, org),
      origin |-> FindBest(t2, 0, FLT_MAX, org),
      has_reached_goal |-> none_open,
      exit_branch |-> IF none_open THEN "stuck" ELSE "none"]

\* an iteration that expands the origin
ExpandOrigin(w) ==
  LET org == w.origin
      t1 == AddCandidates(w.tree_, org, LocalLimits(w.tree_, org), 1)
      t2 == [t1 EXCEPT ![org + 1].closed_ = TRUE]
  IN [tree_ |-> t2,
      closed_set_ |-> Append(w.closed_set_, org),
      origin |-> FindBest(t2, 0, FLT_MAX, org),
      has_reached_goal |-> (Len(t2) <= 1),
      exit_branch |-> IF Len(t2) <= 1 THEN "stuck" ELSE "none"]

\* one iteration of while (!has_reached_goal)
LoopBody(w) ==
  IF GoalOrHorizon(w.tree_, w.origin) THEN AppendGoalNode(w) ELSE ExpandOrigin(w)

\* the walk without the push of the root's setpoint after it
RECURSIVE CollectSetpoints_WithoutRoot(_, _)
CollectSetpoints_WithoutRoot(t, tree_end) ==
  IF tree_end > 0
  THEN <<t[tree_end + 1].setpoint>> \o CollectSetpoints_WithoutRoot(t, t[tree_end + 1].origin_)
  ELSE <<>>

\* the walk started at the last node of the arena instead of at tree_end
CollectSetpoints_FromLastNode(t, tree_end) ==
  LET RECURSIVE Walk(_)
      Walk(n) == IF n > 0 THEN <<t[n + 1].setpoint>> \o Walk(t[n + 1].origin_)
                 ELSE <<t[1].setpoint>>
  IN Walk(Len(t) - 1)

\* the walk from tree_end along origin_ to the root, then the root's setpoint
RECURSIVE CollectSetpoints(_, _)
CollectSetpoints(t, tree_end) ==
  IF tree_end > 0
  THEN <<t[tree_end + 1].setpoint>> \o CollectSetpoints(t, t[tree_end + 1].origin_)
  ELSE <<t[1].setpoint>>

\* what path_node_setpoints_[size - 2] can yield when the index is outside the
\* vector: whatever lies in memory there (for one, the value starting_direction_
\* already has; for another, a vector that is no setpoint at all)
Garbage3 == <<-1, -1, -1>>
OutOfBoundsReads(old) == { old, Garbage3 }

\* path extraction: the outcomes [path, direction, oob, crashed]
ExtractOutcomes(t, tree_end, old) ==
  LET path == CollectSetpoints(t, tree_end)
      idx == (Len(path) - 2) % SizeModulus
  IN IF idx >= 0
     THEN IF idx < Len(path)
          THEN { [path |-> path, direction |-> path[idx + 1], oob |-> FALSE, crashed |-> FALSE] }
          ELSE { [path |-> path, direction |-> v, oob |-> TRUE, crashed |-> FALSE] :
                   v \in OutOfBoundsReads(old) }
               \cup { [path |-> path, direction |-> old, oob |-> TRUE, crashed |-> TRUE] }
     ELSE { [path |-> path, direction |-> old, oob |-> FALSE, crashed |-> FALSE] }

----------------------------------------------------------------------------
\* State machine

\* bound on the length of closed_set_, which an iteration that adds no node and
\* finds no open node lengthens forever
MaxClosed == 7

\* a planner as the constructor leaves it: empty containers, and the member
\* initialiser of starting_direction_ (the zero vector)
FreshPlanner ==
  [tree_ |-> <<>>, closed_set_ |-> <<>>, path_node_setpoints_ |-> <<>>,
   starting_direction_ |-> Zero3, origin |-> 0, has_reached_goal |-> FALSE,
   exit_branch |-> "none", oob_read |-> FALSE, crashed |-> FALSE]

\* no earlier call to compare with
NoEarlierCall == [weight |-> 0, tree_ |-> <<>>, exit_branch |-> "none"]
\* the inputs other than the heuristic weight
inputs_but_weight ==
  <<cost_params_, lims_, acceptance_radius_, position_, velocity_, q_, goal_,
    cloud_, children_per_node_, n_expanded_nodes_, tree_node_duration_,
    max_path_length_, smoothing_margin_degrees_, max_sensor_range_,
    min_sensor_range_>>
\* the inputs as a call finds them at its entry
InputsNow == [all |-> inputs, weight |-> tree_heuristic_weight_,
              rest |-> inputs_but_weight]
\* before the first call
NoInputs == [all |-> <<>>, weight |-> 0, rest |-> <<>>]
\* the inputs a of an earlier call and b of a later one agree everywhere but in
\* the heuristic weight, which is smaller in a
SmallerWeightOnly(a, b) == a.rest = b.rest /\ a.weight < b.weight

Working ==
  [tree_ |-> tree_, closed_set_ |-> closed_set_, origin |-> origin,
   has_reached_goal |-> has_reached_goal, exit_branch |-> exit_branch]

Idle == pc \in {"idle", "done"}

Init ==
  /\ \E p \in ParamSets :
       /\ cost_params_ = p.cost
       /\ lims_ = p.limits
       /\ acceptance_radius_ = p.acc_rad
  /\ \E p \in Poses :
       /\ position_ = p.pos
       /\ velocity_ = p.vel
       /\ q_ = p.q
  /\ goal_ \in Goals
  /\ cloud_ \in Clouds
  /\ \E config \in Configs :
       /\ children_per_node_ = config.children_per_node_
       /\ n_expanded_nodes_ = config.n_expanded_nodes_
       /\ tree_node_duration_ = config.tree_node_duration_
       /\ max_path_length_ = config.max_sensor_range_
       /\ smoothing_margin_degrees_ = config.smoothing_margin_degrees_
       /\ tree_heuristic_weight_ = config.tree_heuristic_weight_
       /\ max_sensor_range_ = config.max_sensor_range_
       /\ min_sensor_range_ = config.min_sensor_range_
  /\ tree_ = FreshPlanner.tree_
  /\ closed_set_ = FreshPlanner.closed_set_
  /\ path_node_setpoints_ = FreshPlanner.path_node_setpoints_
  /\ starting_direction_ = FreshPlanner.starting_direction_
  /\ origin = 0
  /\ has_reached_goal = FALSE
  /\ pc = "idle"
  /\ exit_branch = "none"
  /\ oob_read = FALSE
  /\ fresh = FreshPlanner
  /\ call_inputs = NoInputs
  /\ prev = NoEarlierCall

dynamicReconfigureSetStarParams(config) ==
  /\ Idle
  /\ children_per_node_' = config.children_per_node_
  /\ n_expanded_nodes_' = config.n_expanded_nodes_
  /\ tree_node_duration_' = config.tree_node_duration_
  /\ max_path_length_' = config.max_sensor_range_
  /\ smoothing_margin_degrees_' = config.smoothing_margin_degrees_
  /\ tree_heuristic_weight_' = config.tree_heuristic_weight_
  /\ max_sensor_range_' = config.max_sensor_range_
  /\ min_sensor_range_' = config.min_sensor_range_
  /\ pc' = "idle"
  /\ UNCHANGED <<cost_params_, lims_, acceptance_radius_, position_, velocity_, q_,
                 goal_, cloud_, results, origin, has_reached_goal, exit_branch,
                 oob_read, fresh, call_inputs, prev>>

setParams(cost_params, limits, acc_rad) ==
  /\ Idle
  /\ cost_params_' = cost_params
  /\ lims_' = limits
  /\ acceptance_radius_' = acc_rad
  /\ pc' = "idle"
  /\ UNCHANGED <<position_, velocity_, q_, goal_, cloud_, children_per_node_,
                 n_expanded_nodes_, tree_node_duration_, max_path_length_,
                 smoothing_margin_degrees_, tree_heuristic_weight_, max_sensor_range_,
                 min_sensor_range_, results, origin, has_reached_goal, exit_branch,
                 oob_read, fresh, call_inputs, prev>>

setPose(pos, vel, q) ==
  /\ Idle
  /\ position_' = pos
  /\ velocity_' = vel
  /\ q_' = q
  /\ pc' = "idle"
  /\ UNCHANGED <<cost_params_, lims_, acceptance_radius_, goal_, cloud_,
                 children_per_node_, n_expanded_nodes_, tree_node_duration_,
                 max_path_length_, smoothing_margin_degrees_, tree_heuristic_weight_,
                 max_sensor_range_, min_sensor_range_, results, origin,
                 has_reached_goal, exit_branch, oob_read, fresh, call_inputs, prev>>

setGoal(goal) ==
  /\ Idle
  /\ goal_' = goal
  /\ pc' = "idle"
  /\ UNCHANGED <<cost_params_, lims_, acceptance_radius_, position_, velocity_, q_,
                 cloud_, children_per_node_, n_expanded_nodes_, tree_node_duration_,
                 max_path_length_, smoothing_margin_degrees_, tree_heuristic_weight_,
                 max_sensor_range_, min_sensor_range_, results, origin,
                 has_reached_goal, exit_branch, oob_read, fresh, call_inputs, prev>>

setPointcloud(cloud) ==
  /\ Idle
  /\ cloud_' = cloud
  /\ pc' = "idle"
  /\ UNCHANGED <<cost_params_, lims_, acceptance_radius_, position_, velocity_, q_,
                 goal_, children_per_node_, n_expanded_nodes_, tree_node_duration_,
                 max_path_length_, smoothing_margin_degrees_, tree_heuristic_weight_,
                 max_sensor_range_, min_sensor_range_, results, origin,
                 has_reached_goal, exit_branch, oob_read, fresh, call_inputs, prev>>

\* buildLookAheadTree up to the loop: clear, insert the root, origin = 0
Begin(now) ==
  /\ Idle
  /\ tree_' = <<RootNode(now)>>
  /\ closed_set_' = <<>>
  /\ origin' = 0
  /\ has_reached_goal' = FALSE
  /\ exit_branch' = "none"
  /\ oob_read' = FALSE
  /\ pc' = "loop"
  /\ fresh' = [FreshPlanner EXCEPT !.tree_ = <<RootNode(now)>>]
  /\ call_inputs' = InputsNow
  /\ prev' = IF tree_ # <<>> /\ SmallerWeightOnly(call_inputs, InputsNow)
             THEN [weight |-> call_inputs.weight, tree_ |-> tree_,
                   exit_branch |-> exit_branch]
             ELSE NoEarlierCall
  /\ UNCHANGED <<inputs, path_node_setpoints_, starting_direction_>>

\* an iteration that adjusts the horizontal speed in lims_ itself, not in a copy
Iterate_LimitsInPlace ==
  /\ pc = "loop"
  /\ Len(closed_set_) < MaxClosed
  /\ LET r == LoopBody(Working)
     IN /\ tree_' = r.tree_
        /\ closed_set_' = r.closed_set_
        /\ origin' = r.origin
        /\ has_reached_goal' = r.has_reached_goal
        /\ exit_branch' = r.exit_branch
        /\ pc' = IF r.has_reached_goal THEN "extract" ELSE "loop"
  /\ fresh' = IF fresh.has_reached_goal THEN fresh
              ELSE LET f == LoopBody(fresh)
                   IN [fresh EXCEPT !.tree_ = f.tree_, !.closed_set_ = f.closed_set_,
                                    !.origin = f.origin,
                                    !.has_reached_goal = f.has_reached_goal,
                                    !.exit_branch = f.exit_branch]
  /\ lims_' = LocalLimits(tree_, origin)
  /\ UNCHANGED <<cost_params_, acceptance_radius_, position_, velocity_, q_, goal_,
                 cloud_, children_per_node_, n_expanded_nodes_, tree_node_duration_,
                 max_path_length_, smoothing_margin_degrees_, tree_heuristic_weight_,
                 max_sensor_range_, min_sensor_range_>>
  /\ UNCHANGED <<path_node_setpoints_, starting_direction_, oob_read,
                 call_inputs, prev>>

\* one iteration of the loop
Iterate ==
  /\ pc = "loop"
  /\ Len(closed_set_) < MaxClosed
  /\ LET r == LoopBody(Working)
     IN /\ tree_' = r.tree_
        /\ closed_set_' = r.closed_set_
        /\ origin' = r.origin
        /\ has_reached_goal' = r.has_reached_goal
        /\ exit_branch' = r.exit_branch
        /\ pc' = IF r.has_reached_goal THEN "extract" ELSE "loop"
  /\ fresh' = IF fresh.has_reached_goal THEN fresh
              ELSE LET f == LoopBody(fresh)
                   IN [fresh EXCEPT !.tree_ = f.tree_, !.closed_set_ = f.closed_set_,
                                    !.origin = f.origin,
                                    !.has_reached_goal = f.has_reached_goal,
                                    !.exit_branch = f.exit_branch]
  /\ UNCHANGED <<inputs, path_node_setpoints_, starting_direction_, oob_read,
                 call_inputs, prev>>

\* the setpoints into path_node_setpoints_, and starting_direction_
ExtractPath ==
  /\ pc = "extract"
  /\ \E o \in ExtractOutcomes(tree_, origin, starting_direction_) :
       /\ path_node_setpoints_' = o.path
       /\ starting_direction_' = o.direction
       /\ oob_read' = o.oob
       /\ pc' = IF o.crashed THEN "crashed" ELSE "done"
  /\ \E f \in ExtractOutcomes(fresh.tree_, fresh.origin, fresh.starting_direction_) :
       fresh' = [fresh EXCEPT !.path_node_setpoints_ = f.path,
                              !.starting_direction_ = f.direction,
                              !.oob_read = f.oob, !.crashed = f.crashed]
  /\ UNCHANGED <<inputs, tree_, closed_set_, origin, has_reached_goal, exit_branch,
                 call_inputs, prev>>

Next ==
  \/ \E config \in Configs : dynamicReconfigureSetStarParams(config)
  \/ \E p \in ParamSets : setParams(p.cost, p.limits, p.acc_rad)
  \/ \E p \in Poses : setPose(p.pos, p.vel, p.q)
  \/ \E goal \in Goals : setGoal(goal)
  \/ \E cloud \in Clouds : setPointcloud(cloud)
  \/ \E now \in Times : Begin(now)
  \/ Iterate
  \/ ExtractPath

Spec == Init /\ [][Next]_vars

----------------------------------------------------------------------------
\* Vocabulary of the properties

\* a call is running or has returned, and the inputs are still those of the call
Active == pc \in {"loop", "extract", "done", "crashed"}
Returned == pc \in {"done", "crashed"}
\* the code's indices of the arena
Indices == 0 .. (Len(tree_) - 1)
\* the node the goal/horizon branch appended, if it has run
IsTerminalNode(i) == exit_branch = "goal" /\ i = Len(tree_) - 1
\* how often index i was pushed onto closed_set_
TimesClosed(i) == Cardinality({k \in 1 .. Len(closed_set_) : closed_set_[k] = i})

\* the k-th ancestor of node n along the recorded parent indices (the 0-th is n)
RECURSIVE Ancestor(_, _)
Ancestor(n, k) == IF k = 0 THEN n ELSE Ancestor(tree_[n + 1].origin_, k - 1)
\* number of parent links from node n to the root
RECURSIVE Depth(_)
Depth(n) == IF n = 0 THEN 0 ELSE 1 + Depth(tree_[n + 1].origin_)

----------------------------------------------------------------------------
\* C1: every invocation terminates; the expansion loop cannot run forever.
\* The loop body is a function of the inputs, tree_ and origin alone (closed_set_
\* is written, never read), so the loop can only terminate if no iteration that
\* stays in the loop leaves both tree_ and origin as they were: such an iteration
\* repeats without end.
C1_EveryIterationProgresses ==
  [][(pc = "loop" /\ pc' = "loop") => <<tree_, origin>>' # <<tree_, origin>>]_vars

\* C2: after path extraction starting_direction_ is the second-to-last entry of
\* path_node_setpoints_ when that has at least two entries; when it has one
\* entry, starting_direction_ is not assigned and nothing is read outside the
\* sequence.
C2_NextCommand ==
  [][(pc = "extract" /\ pc' # "extract") =>
       IF Len(path_node_setpoints_') >= 2
       THEN /\ starting_direction_' = path_node_setpoints_'[Len(path_node_setpoints_') - 1]
            /\ ~oob_read'
            /\ pc' = "done"
       ELSE /\ starting_direction_' = starting_direction_
            /\ ~oob_read'
            /\ pc' = "done"]_vars

\* C3 (as claimed): every non-root node, the node appended by the goal/horizon
\* branch included, satisfies f(child) = (f(parent) - h(parent)) + edge_cost(child)
\* + h(child), parent being the node's recorded parent index.
ScoreUpdateHolds(i) ==
  LET child == tree_[i + 1]
      parent == tree_[child.origin_ + 1]
  IN /\ child.heuristic_ = Norm(Sub(goal_, child.state.position)) * tree_heuristic_weight_
     /\ child.total_cost_ = (parent.total_cost_ - parent.heuristic_)
                            + simpleCost(child, goal_, cost_params_, cloud_)
                            + child.heuristic_

C3_ScoreUpdateEveryNode ==
  Active => \A i \in Indices : i > 0 => ScoreUpdateHolds(i)

\* C3 (amended): the score update holds of every non-root node appended by an
\* expansion; the node appended by the goal/horizon branch keeps the costs its
\* constructor gave it.
C3_ScoreUpdateExpandedNodes ==
  Active => \A i \in Indices : (i > 0 /\ ~IsTerminalNode(i)) => ScoreUpdateHolds(i)

\* a returned tree with a grandchild of the root whose parent has a positive
\* cost-to-come, and a terminal node
C3_Witness ==
  /\ pc = "done"
  /\ exit_branch = "goal"
  /\ \E i \in Indices :
       /\ i > 0
       /\ ~IsTerminalNode(i)
       /\ tree_[i + 1].origin_ > 0
       /\ tree_[tree_[i + 1].origin_ + 1].total_cost_
            > tree_[tree_[i + 1].origin_ + 1].heuristic_

\* C4: any two distinct nodes, the node appended by the goal/horizon branch
\* excluded, lie at least the dedup radius apart; children of one expansion and
\* the root included.
C4_NodesApart ==
  \A i, j \in Indices :
    (i < j /\ ~IsTerminalNode(i) /\ ~IsTerminalNode(j))
      => Norm(Sub(Position(tree_, i), Position(tree_, j))) >= DedupRadius

\* an expansion of a non-root origin that appended some children and discarded
\* some candidates
C4_Witness ==
  /\ pc = "loop"
  /\ Len(closed_set_) = 2
  /\ \E i, j \in Indices : i < j /\ tree_[i + 1].origin_ = closed_set_[2]
                           /\ tree_[j + 1].origin_ = closed_set_[2] /\ closed_set_[2] > 0
  /\ Cardinality({i \in Indices : i > 0 /\ tree_[i + 1].origin_ = closed_set_[2]})
       < Len(candidates)

\* C5: every non-root node's parent index is smaller than its own index.
C5_ParentBeforeChild ==
  \A i \in Indices : i > 0 => (tree_[i + 1].origin_ >= 0 /\ tree_[i + 1].origin_ < i)

\* a tree with a node of depth two and a terminal node
C5_Witness ==
  /\ exit_branch = "goal"
  /\ \E i \in Indices : i > 0 /\ tree_[i + 1].origin_ > 0
                        /\ tree_[tree_[i + 1].origin_ + 1].origin_ = 0

\* the terminal position of the root's k-th candidate, as the expansion of the
\* root computes it
RootEnd(k) ==
  generate_trajectory_back(LocalLimits(tree_, 0), tree_[1].state,
                           Rotate(q_, candidates[k]), tree_node_duration_).position
\* every candidate of the root was tried: it became a node or lies within the
\* dedup radius of one
RootFullyExpanded ==
  /\ tree_[1].closed_
  /\ \A k \in 1 .. Len(candidates) :
       \E i \in Indices : Norm(Sub(Position(tree_, i), RootEnd(k))) < DedupRadius
GoalNearStart == Norm(Sub(position_, goal_)) < acceptance_radius_
RootExpandedOnceThenGoalNode ==
  /\ TimesClosed(0) <= 1
  /\ exit_branch = "goal" =>
       /\ Len(tree_) - 1 >= 2
       /\ origin # 0
       /\ closed_set_[1] = 0
       /\ TimesClosed(0) = 1
       /\ RootFullyExpanded

\* C6 (as claimed): when the goal lies within the acceptance radius of the start,
\* the search does not terminate at the root: the root is fully expanded exactly
\* once before a goal node is appended, and that node has index >= 2.
C6_NoGoalNodeAtRoot ==
  (Active /\ GoalNearStart) => RootExpandedOnceThenGoalNode

\* C6 (amended): the same, provided max_sensor_range is positive; with a range
\* of zero the root itself is at the horizon and the horizon disjunct, which the
\* index test does not cover, appends the terminal node at index 1.
C6_NoGoalNodeAtRootInsideHorizon ==
  (Active /\ GoalNearStart /\ max_sensor_range_ > 0) => RootExpandedOnceThenGoalNode

\* goal within the acceptance radius of the start, and the call returned with a
\* terminal node
C6_Witness ==
  /\ pc = "done"
  /\ GoalNearStart
  /\ max_sensor_range_ > 0
  /\ exit_branch = "goal"

\* C7: an iteration whose origin lies at distance >= 2 x max_sensor_range from
\* the start appends one terminal node and leaves the loop without expanding
\* the origin, whatever the origin's index and its distance to the goal.
C7_HorizonTerminates ==
  [][(pc = "loop" /\ Norm(Sub(Position(tree_, origin), position_)) >= 2 * max_sensor_range_)
       => /\ pc' = "extract"
          /\ has_reached_goal'
          /\ exit_branch' = "goal"
          /\ origin' = origin
          /\ Len(tree_') = Len(tree_) + 1
          /\ SubSeq(tree_', 1, Len(tree_)) = tree_
          /\ tree_'[Len(tree_')].origin_ = origin
          /\ tree_'[Len(tree_')].state.position = goal_]_vars

\* the loop was left at origin 1, far from the goal, because of the horizon
C7_Witness ==
  /\ pc = "extract"
  /\ exit_branch = "goal"
  /\ origin = 1
  /\ Norm(Sub(Position(tree_, origin), goal_)) >= acceptance_radius_
  /\ Norm(Sub(Position(tree_, origin), position_)) >= 2 * max_sensor_range_

SameEndForAllCandidates == \A k \in 1 .. Len(candidates) : RootEnd(k) = RootEnd(1)
StuckWithRootOnly ==
  /\ Len(tree_) = 1
  /\ pc = "loop" => closed_set_ = <<>>
  /\ pc # "loop" => exit_branch = "stuck"
  /\ Returned => Len(path_node_setpoints_) = 1

\* C8 (as claimed): if the simulator returns the same terminal position for all
\* 10 candidates of the root, the invocation ends by stuck-termination with only
\* the root in the tree and a path of length 1.
C8_SameEndIsStuck ==
  (Active /\ SameEndForAllCandidates) => StuckWithRootOnly

\* C8 (amended): the same, provided the root is expanded (it is not at the
\* horizon) and the common terminal position lies within the dedup radius of the
\* root's position.
C8_SameEndNearRootIsStuck ==
  (/\ Active
   /\ SameEndForAllCandidates
   /\ ~GoalOrHorizon(<<tree_[1]>>, 0)
   /\ Norm(Sub(RootEnd(1), position_)) < DedupRadius) => StuckWithRootOnly

\* a returned stuck invocation of a vehicle that drifts less than the dedup radius
C8_Witness ==
  /\ pc = "done"
  /\ exit_branch = "stuck"
  /\ SameEndForAllCandidates
  /\ RootEnd(1) # position_

\* C9: the results of an invocation are those a planner constructed at the
\* moment of the call yields on the same inputs.
C9_ResultsFromInputsOnly ==
  Returned =>
    /\ tree_ = fresh.tree_
    /\ closed_set_ = fresh.closed_set_
    /\ path_node_setpoints_ = fresh.path_node_setpoints_
    /\ starting_direction_ = fresh.starting_direction_
    /\ (pc = "crashed") = fresh.crashed

\* C10 (as claimed): after goal- or horizon-termination the first entry of the
\* setpoint sequence is the setpoint of the appended terminal node, followed by
\* the setpoints of its ancestors in parent order.
PathFollowsParentsFrom(n) ==
  /\ Len(path_node_setpoints_) = Depth(n) + 1
  /\ \A k \in 1 .. Len(path_node_setpoints_) :
       path_node_setpoints_[k] = tree_[Ancestor(n, k - 1) + 1].setpoint

C10_PathFromTerminalNode ==
  (pc = "done" /\ exit_branch = "goal") => PathFollowsParentsFrom(Len(tree_) - 1)

\* C10 (amended): the sequence starts with the setpoint of the final origin, the
\* parent of the appended terminal node, followed by the setpoints of the
\* origin's ancestors; the terminal node's own setpoint is not in it.
C10_PathFromFinalOrigin ==
  (pc = "done" /\ exit_branch = "goal") =>
    /\ tree_[Len(tree_)].origin_ = origin
    /\ PathFollowsParentsFrom(origin)

\* a returned goal/horizon termination at an origin of depth two or more
C10_Witness ==
  /\ pc = "done"
  /\ exit_branch = "goal"
  /\ Len(path_node_setpoints_) >= 3

----------------------------------------------------------------------------
\* C11: buildLookAheadTree leaves every input as the caller supplied it: the
\* limits (the configured maximum horizontal speed among them), pose, velocity,
\* orientation, goal, cost parameters, acceptance radius, sensor ranges and
\* tunables have during the call and at its return the values they had at its
\* entry; the adjusted speed limit lives in a copy.
C11_InputsAsAtEntry ==
  Active => inputs = call_inputs.all

\* a returned call whose first iteration adjusted the horizontal speed to less
\* than the configured one
C11_Witness ==
  /\ pc = "done"
  /\ tree_[1].closed_
  /\ LocalLimits(tree_, 0).max_xy_velocity_norm < lims_.max_xy_velocity_norm
  /\ inputs = call_inputs.all

----------------------------------------------------------------------------
\* Two invocations on the same inputs but for the heuristic weight: prev holds
\* the tree of the one with the smaller weight, tree_ that of the one with the
\* larger weight, once it has returned.
BothReturned == pc = "done" /\ prev.tree_ # <<>>
\* the indices both trees hold
CommonIndices ==
  0 .. ((IF Len(tree_) < Len(prev.tree_) THEN Len(tree_) ELSE Len(prev.tree_)) - 1)
\* the node the goal/horizon branch appended in the earlier invocation
IsEarlierTerminalNode(i) == prev.exit_branch = "goal" /\ i = Len(prev.tree_) - 1
\* the score update of the earlier tree, under the earlier weight
EarlierScoreUpdateHolds(i) ==
  LET child == prev.tree_[i + 1]
      parent == prev.tree_[child.origin_ + 1]
  IN /\ child.heuristic_ = Norm(Sub(goal_, child.state.position)) * prev.weight
     /\ child.total_cost_ = (parent.total_cost_ - parent.heuristic_)
                            + simpleCost(child, goal_, cost_params_, cloud_)
                            + child.heuristic_
\* index i holds in both trees the same node, appended by an expansion and
\* reached along the same chain of parents
RECURSIVE SameNode(_)
SameNode(i) ==
  /\ tree_[i + 1].state = prev.tree_[i + 1].state
  /\ tree_[i + 1].setpoint = prev.tree_[i + 1].setpoint
  /\ tree_[i + 1].origin_ = prev.tree_[i + 1].origin_
  /\ ~IsTerminalNode(i) /\ ~IsEarlierTerminalNode(i)
  /\ (i = 0 \/ SameNode(tree_[i + 1].origin_))

\* C12: of two invocations on identical inputs that differ only in the heuristic
\* weight, every node's h and f are strictly larger under the larger weight, in
\* proportion to the weight, and f(child) = g(parent) + edge_cost + h(child)
\* holds in both.
C12_LargerWeightRaisesEveryScore ==
  BothReturned =>
    /\ \A i \in CommonIndices :
         LET n1 == prev.tree_[i + 1]
             n2 == tree_[i + 1]
         IN /\ n2.heuristic_ > n1.heuristic_
            /\ n2.total_cost_ > n1.total_cost_
            /\ n2.heuristic_ * prev.weight = n1.heuristic_ * tree_heuristic_weight_
            /\ n2.total_cost_ * prev.weight = n1.total_cost_ * tree_heuristic_weight_
    /\ \A i \in Indices : i > 0 => ScoreUpdateHolds(i)
    /\ \A i \in 1 .. (Len(prev.tree_) - 1) : EarlierScoreUpdateHolds(i)

\* C12 (amended): a node that both trees hold at the same index, appended by an
\* expansion and reached along the same chain of parents, has h in proportion to
\* the weight and the same cost-to-come f - h in both, so h and f are larger
\* under the larger weight by the same amount, strictly unless the node is at
\* distance 0 from the goal; the score update holds in both trees for every node
\* appended by an expansion.
C12_LargerWeightRaisesSameNodes ==
  BothReturned =>
    /\ \A i \in CommonIndices :
         SameNode(i) =>
           LET n1 == prev.tree_[i + 1]
               n2 == tree_[i + 1]
               dist == Norm(Sub(goal_, n2.state.position))
           IN /\ n1.heuristic_ = dist * prev.weight
              /\ n2.heuristic_ = dist * tree_heuristic_weight_
              /\ n2.total_cost_ - n2.heuristic_ = n1.total_cost_ - n1.heuristic_
              /\ dist > 0 => (n2.heuristic_ > n1.heuristic_
                              /\ n2.total_cost_ > n1.total_cost_)
              /\ dist = 0 => (n2.heuristic_ = n1.heuristic_
                              /\ n2.total_cost_ = n1.total_cost_)
    /\ \A i \in Indices : (i > 0 /\ ~IsTerminalNode(i)) => ScoreUpdateHolds(i)
    /\ \A i \in 1 .. (Len(prev.tree_) - 1) :
         ~IsEarlierTerminalNode(i) => EarlierScoreUpdateHolds(i)

\* both invocations have returned, and both trees hold a node appended by an
\* expansion whose h is larger under the larger weight
C12_Witness ==
  /\ BothReturned
  /\ prev.weight < tree_heuristic_weight_
  /\ \E i \in CommonIndices :
       i > 0 /\ SameNode(i) /\ tree_[i + 1].heuristic_ > prev.tree_[i + 1].heuristic_

----------------------------------------------------------------------------
\* the state the latest iteration left is that of an expansion
AfterExpansion == Active /\ closed_set_ # <<>> /\ exit_branch # "goal"
\* node i is not closed
Open(i) == ~tree_[i + 1].closed_
\* origin is the first of the open nodes of least f
OriginIsFirstBestOpen ==
  /\ Open(origin)
  /\ \A i \in Indices :
       Open(i) => /\ tree_[origin + 1].total_cost_ <= tree_[i + 1].total_cost_
                  /\ tree_[i + 1].total_cost_ = tree_[origin + 1].total_cost_
                       => origin <= i

\* C13: after each expansion the next origin is the lowest-index node among the
\* non-closed nodes of minimal f: no non-closed node has a strictly smaller f,
\* and of the non-closed nodes of equal minimal f the one of smallest index is
\* chosen.
C13_NextOriginIsBestOpen ==
  AfterExpansion => OriginIsFirstBestOpen

\* C13 (amended): the same whenever the expansion leaves a non-closed node; when
\* it leaves none, the origin stays the node just expanded.
C13_NextOriginIsBestOpenIfAny ==
  [][(pc = "loop" /\ exit_branch' # "goal")
       => IF \E i \in Indices' : Open(i)'
          THEN OriginIsFirstBestOpen'
          ELSE origin' = origin]_vars

\* an expansion has left several open nodes of the least f, and open nodes of
\* larger f, and the loop goes on from the first of the former
C13_Witness ==
  /\ pc = "loop"
  /\ AfterExpansion
  /\ OriginIsFirstBestOpen
  /\ \E i \in Indices :
       /\ i > origin /\ Open(i)
       /\ tree_[i + 1].total_cost_ = tree_[origin + 1].total_cost_
  /\ \E i \in Indices :
       /\ i < origin /\ Open(i)
       /\ tree_[i + 1].total_cost_ > tree_[origin + 1].total_cost_

----------------------------------------------------------------------------
\* C14: every origin is non-closed when its expansion starts, so no node is
\* expanded more than once and no index is pushed onto closed_set_ more than
\* once, also in iterations whose scan finds no non-closed node.
C14_ExpandedAtMostOnce ==
  Active =>
    /\ (pc = "loop" /\ ~GoalOrHorizon(tree_, origin)) => Open(origin)
    /\ \A i \in Indices : TimesClosed(i) <= 1

----------------------------------------------------------------------------
\* the iteration in which the goal/horizon branch fires: it fires on the branch's
\* condition only, appends one node and leaves the origin
GoalBranchStep ==
  (pc = "loop" /\ exit_branch' = "goal") =>
    /\ \/ (origin > 1
           /\ Norm(Sub(Position(tree_, origin), goal_)) < acceptance_radius_)
       \/ Norm(Sub(Position(tree_, origin), position_)) >= 2 * max_sensor_range_
    /\ Len(tree_') = Len(tree_) + 1
    /\ SubSeq(tree_', 1, Len(tree_)) = tree_
    /\ origin' = origin
\* from then on the last node of the arena is the goal node below the origin
GoalNodeIsLast ==
  (Active /\ exit_branch = "goal") =>
    LET last == tree_[Len(tree_)]
    IN /\ origin < Len(tree_) - 1
       /\ last.state.position = goal_
       /\ last.origin_ = origin
       /\ last.setpoint = Sub(goal_, Position(tree_, origin))

\* C15: when the goal/horizon branch fires, exactly one node is appended in that
\* iteration; it is the last node of the arena at return, its position is the
\* goal, its parent is the origin of that iteration and its setpoint is the goal
\* minus that origin's position.  The branch fires only if the origin's index is
\* above 1 and it is within the acceptance radius of the goal, or the origin is
\* at least twice max_sensor_range_ away from the start.
C15_GoalNode ==
  [][GoalBranchStep]_vars /\ []GoalNodeIsLast

\* a call has returned through the branch, fired by the acceptance radius at an
\* origin below the horizon
C15_Witness ==
  /\ pc = "done"
  /\ exit_branch = "goal"
  /\ origin > 1
  /\ Norm(Sub(Position(tree_, origin), goal_)) < acceptance_radius_
  /\ Norm(Sub(Position(tree_, origin), position_)) < 2 * max_sensor_range_
  /\ tree_[Len(tree_)].origin_ = origin
  /\ tree_[Len(tree_)].setpoint # Sub(goal_, position_)

----------------------------------------------------------------------------
\* C16: when the goal/horizon branch fires, the origin and the node it appends
\* are both marked closed at return: the closed flag of each is true and the
\* index of each is in closed_set_, so that a node's closed flag is true exactly
\* when its index is in closed_set_.
C16_GoalBranchClosesBoth ==
  (pc = "done" /\ exit_branch = "goal") =>
    /\ ~Open(origin) /\ TimesClosed(origin) >= 1
    /\ ~Open(Len(tree_) - 1) /\ TimesClosed(Len(tree_) - 1) >= 1
    /\ \A i \in Indices : ~Open(i) <=> TimesClosed(i) >= 1

----------------------------------------------------------------------------
\* C17: at return the collected path is the sequence of setpoints on the parent
\* chain from the final origin to the root: it has depth(final origin) + 1
\* entries, entry k is the setpoint of the k-th ancestor of the final origin (the
\* origin itself first), the last entry is the root's zero setpoint, and the path
\* is never empty.
C17_PathIsParentChain ==
  pc = "done" =>
    /\ Len(path_node_setpoints_) = Depth(origin) + 1
    /\ \A k \in 0 .. Depth(origin) :
         path_node_setpoints_[k + 1] = tree_[Ancestor(origin, k) + 1].setpoint
    /\ Ancestor(origin, Depth(origin)) = 0
    /\ path_node_setpoints_[Len(path_node_setpoints_)] = Zero3
    /\ path_node_setpoints_ # <<>>

\* a returned call whose final origin is two links below the root: the path is
\* that node's setpoint, its parent's and the root's
C17_Witness ==
  /\ pc = "done"
  /\ Depth(origin) = 2
  /\ path_node_setpoints_ = <<tree_[origin + 1].setpoint,
                              tree_[tree_[origin + 1].origin_ + 1].setpoint,
                              Zero3>>
  /\ tree_[origin + 1].setpoint # Zero3

----------------------------------------------------------------------------
\* an iteration that expands the origin: the loop is left by stuck-termination
\* exactly when it is the first iteration and it appended no node
StuckOnlyAfterBarrenRootExpansion ==
  (pc = "loop" /\ exit_branch' # "goal") =>
    /\ exit_branch' = "stuck" <=> (closed_set_ = <<>> /\ Len(tree_') = Len(tree_))
    /\ pc' # "loop" <=> exit_branch' = "stuck"
\* once the arena holds two nodes or more the loop is left through the
\* goal/horizon branch only
LargerTreeLeavesThroughGoalBranch ==
  (pc = "loop" /\ Len(tree_) >= 2 /\ pc' # "loop") => exit_branch' = "goal"

\* C18: stuck-termination can fire only at the end of the first iteration, and
\* fires there exactly when the expansion of the root appended no node; once the
\* arena holds at least two nodes the loop can exit only through the
\* goal/horizon branch, also when no non-closed node remains.
C18_StuckOnlyAtRoot ==
  [][StuckOnlyAfterBarrenRootExpansion /\ LargerTreeLeavesThroughGoalBranch]_vars

\* the loop goes on with two nodes or more in the arena and none of them open
C18_Witness ==
  /\ pc = "loop"
  /\ exit_branch = "none"
  /\ Len(tree_) >= 2
  /\ \A i \in Indices : ~Open(i)

----------------------------------------------------------------------------
\* the three speeds of which the simulator gets the least, for an origin at p
BrakingSpeedToGoal(p) ==
  computeMaxSpeedFromBrakingDistance(lims_.max_jerk_norm, lims_.max_acceleration_norm,
                                     NormXY(Sub(p, goal_)))
BrakingSpeedOverSensorRange ==
  computeMaxSpeedFromBrakingDistance(lims_.max_jerk_norm, lims_.max_acceleration_norm,
                                     max_sensor_range_)
LeastOfThree(a, b, c) ==
  CHOOSE m \in {a, b, c} : m <= a /\ m <= b /\ m <= c
\* the limits the claim has the simulator get for an origin at p: lims_ but for
\* the horizontal speed
ClaimedLimits(p) ==
  [max_xy_velocity_norm |-> LeastOfThree(BrakingSpeedToGoal(p),
                                         BrakingSpeedOverSensorRange,
                                         lims_.max_xy_velocity_norm),
   max_z_velocity |-> lims_.max_z_velocity,
   max_acceleration_norm |-> lims_.max_acceleration_norm,
   max_jerk_norm |-> lims_.max_jerk_norm]
\* node i was appended by an expansion
Expanded(i) == i > 0 /\ ~IsTerminalNode(i)

\* C19: in every iteration the maximum horizontal speed handed to the simulator
\* is the least of the braking speed for the origin's horizontal distance to the
\* goal, the braking speed for max_sensor_range_ and the configured maximum
\* horizontal speed; it never exceeds the configured one, and all other limits
\* are handed over unchanged.  Seen in what the simulator returned: the state of
\* every node an expansion appended is the end of the trajectory simulated under
\* those limits from its parent's state along its setpoint.
C19_SimulatedUnderLeastSpeed ==
  Active =>
    \A i \in Indices :
      Expanded(i) =>
        LET parent == tree_[tree_[i + 1].origin_ + 1]
            limits == ClaimedLimits(parent.state.position)
        IN /\ limits.max_xy_velocity_norm <= lims_.max_xy_velocity_norm
           /\ tree_[i + 1].state =
                generate_trajectory_back(limits, parent.state, tree_[i + 1].setpoint,
                                         tree_node_duration_)

\* a tree with a node simulated at the full configured speed, from an origin far
\* from the goal, and a node simulated at a smaller speed, from an origin whose
\* braking speed to the goal is the least of the three
C19_Witness ==
  /\ Active
  /\ \E i \in Indices :
       /\ Expanded(i)
       /\ LET p == tree_[tree_[i + 1].origin_ + 1].state.position
          IN /\ BrakingSpeedToGoal(p) < BrakingSpeedOverSensorRange
             /\ BrakingSpeedToGoal(p) < lims_.max_xy_velocity_norm
  /\ \E j \in Indices :
       /\ Expanded(j)
       /\ LET p == tree_[tree_[j + 1].origin_ + 1].state.position
          IN ClaimedLimits(p).max_xy_velocity_norm = lims_.max_xy_velocity_norm

====
